---- MODULE Spec2Model ----
(***************************************************************************)
(* Disk-state consistency subsystem of the buck2 daemon                    *)
(* (app/buck2_server/src/daemon/disk_state.rs):                            *)
(*   - DiskStateOptions::new               the rollout decision            *)
(*   - maybe_initialize_materializer_sqlite_db   the store lifecycle       *)
(*   - delete_unknown_disk_state           the cache directory reconciler  *)
(***************************************************************************)
EXTENDS Integers, Sequences, FiniteSets, TLC

VARIABLES
    store,      \* what is on disk at paths.materializer_state_path()
    now,        \* the wall clock read by Utc::now()
    pc,         \* position of the daemon in maybe_initialize_materializer_sqlite_db
    call,       \* arguments and locals of the call in flight / last call
    ret,        \* what maybe_initialize_materializer_sqlite_db returned to its caller
    prev,       \* the previous completed call and its result
    io,         \* the filesystem and store operations the call has run so far
    new_args,   \* arguments of DiskStateOptions::new
    new_ret,    \* result of DiskStateOptions::new
    cache,      \* the directory tree at cache_dir_path
    known,      \* known_dir_names
    del_ret,    \* result of delete_unknown_disk_state
    before,     \* the tree as it was when delete_unknown_disk_state was called
    del_io,     \* what the filesystem did during that call: enumeration order, failure
    prev_del    \* the call right before that one, when there was one and it returned Ok

vars == <<store, now, pc, call, ret, prev, io, new_args, new_ret, cache, known, del_ret, before,
          del_io, prev_del>>

storeVars == <<store, now, pc, call, ret, prev, io>>
rolloutVars == <<new_args, new_ret>>
cacheVars == <<cache, known, del_ret, before, del_io, prev_del>>

\* ---------------------------------------------------------------- bounds
MaxClock == 2       \* daemon startups modelled

\* ---------------------------------------------------------------- Option
None == <<>>
Some(x) == <<x>>
IsSome(o) == o # None
Unwrap(o) == o[1]

\* HashMap::insert
Insert(m, k, v) == [x \in (DOMAIN m) \cup {k} |-> IF x = k THEN v ELSE m[x]]
\* HashMap::get
Get(m, k) == IF k \in DOMAIN m THEN Some(m[k]) ELSE None

BoolToString(b) == IF b THEN "true" ELSE "false"

\* ------------------------------------------------- store lifecycle manager
timestamp_key == "timestamp_on_initialization"

\* the values of DB_SCHEMA_VERSION of the daemon binaries that may run
SchemaVersions == {1, 2}
\* the values of buck2.sqlite_materializer_state_version, None when absent
VersionSettings == {None, Some("v1")}
\* the hostname entry of buck2_events::metadata::collect(), None when absent
Hostnames == {None, Some("h1")}

\* Utc::now().to_rfc3339()
to_rfc3339(t) == ToString(t)

\* buck2_events::metadata::collect(): only the hostname entry is read here
collect(hostname) ==
    IF IsSome(hostname)
    THEN [k \in {"hostname"} |-> Unwrap(hostname)]
    ELSE [k \in {"collected"} |-> "true"]

\* lines 83-85
BuildMetadata(hostname, t) == Insert(collect(hostname), timestamp_key, to_rfc3339(t))

\* root_config.parse::<String>("buck2", "sqlite_materializer_state_version"):
\* String::from_str cannot fail, so the result is always Ok
ParseVersionSetting(setting) == [ok |-> TRUE, val |-> setting]

\* lines 87-103
BuildVersions(schema_version, defer_write_actions, buckconfig_version, metadata) ==
    LET base == [k \in {"schema_version", "defer_write_actions"} |->
                    IF k = "schema_version" THEN ToString(schema_version)
                    ELSE BoolToString(defer_write_actions)]
        withCfg == IF IsSome(buckconfig_version)
                   THEN Insert(base, "buckconfig_version", Unwrap(buckconfig_version))
                   ELSE base
        host == Get(metadata, "hostname")
    IN  IF IsSome(host) THEN Insert(withCfg, "hostname", Unwrap(host)) ELSE withCfg

\* MaterializerState: the artifacts the store believes materialized
EmptyState == {}
MaterializerStates == {EmptyState, {"buck-out/gen/a"}}

\* MaterializerStateSqliteDb::initialize: reuse the store when it is there,
\* readable and was written under the same versions; otherwise reset it to a
\* fresh store created by this open.
MaterializerStateSqliteDb_initialize(disk, versions, metadata) ==
    IF IsSome(disk) /\ ~Unwrap(disk).corrupt /\ Unwrap(disk).versions = versions
    THEN [disk |-> disk, load_result |-> [ok |-> TRUE, state |-> Unwrap(disk).state, err |-> ""]]
    ELSE [disk |-> Some([versions |-> versions, created_by |-> metadata,
                         state |-> EmptyState, corrupt |-> FALSE]),
          load_result |-> [ok |-> FALSE, state |-> EmptyState,
                           err |-> IF ~IsSome(disk) THEN "not found"
                                   ELSE IF Unwrap(disk).corrupt THEN "corrupt"
                                   ELSE "version mismatch"]]

\* db.created_by_table().get(timestamp_key)
created_by_table_get(disk, key) == Get(Unwrap(disk).created_by, key)

\* lines 117-119: the identity is the timestamp recorded in the store's
\* created_by table, not the one this call generated
ReadIdentityFromMetadata(db, metadata) == Get(metadata, timestamp_key)
ReadIdentity(db, metadata) == created_by_table_get(db, timestamp_key)

Err(e) == [ok |-> FALSE, db |-> None, state |-> None, err |-> e]
Ok(db, state) == [ok |-> TRUE, db |-> db, state |-> state, err |-> ""]

\* the delete's error dropped instead of propagated with `?`
DisabledResultIgnoringError(remove_failed) == Ok(None, None)

\* lines 72-78, after the delete has run
DisabledResult(remove_failed) ==
    IF remove_failed THEN Err("remove_path_recursive") ELSE Ok(None, None)

\* `Err(_e) => None` written as a default state
EnabledResultDefaultState(get_failed, timestamp, load_result) ==
    IF get_failed THEN Err("Error reading creation metadata")
    ELSE IF ~IsSome(timestamp) THEN Err("disk state is missing timestamp_on_initialization")
    ELSE Ok(Some([handle |-> "db", identity |-> Unwrap(timestamp)]), Some(load_result.state))

\* the load error propagated with `?` instead of absorbed
EnabledResultPropagating(get_failed, timestamp, load_result) ==
    IF get_failed THEN Err("Error reading creation metadata")
    ELSE IF ~IsSome(timestamp) THEN Err("disk state is missing timestamp_on_initialization")
    ELSE IF ~load_result.ok THEN Err(load_result.err)
    ELSE Ok(Some([handle |-> "db", identity |-> Unwrap(timestamp)]), Some(load_result.state))

\* a missing timestamp replaced by a default identity (unwrap_or_default)
EnabledResultDefaultIdentity(get_failed, timestamp, load_result) ==
    IF get_failed THEN Err("Error reading creation metadata")
    ELSE Ok(Some([handle |-> "db",
                  identity |-> IF IsSome(timestamp) THEN Unwrap(timestamp) ELSE ""]),
            IF load_result.ok THEN Some(load_result.state) ELSE None)

\* the read-back's error discarded instead of propagated with `?`
EnabledResultIgnoringReadError(get_failed, timestamp, load_result) ==
    IF ~IsSome(timestamp) THEN Err("disk state is missing timestamp_on_initialization")
    ELSE Ok(Some([handle |-> "db", identity |-> Unwrap(timestamp)]),
            IF load_result.ok THEN Some(load_result.state) ELSE None)

\* lines 117-131
EnabledResult(get_failed, timestamp, load_result) ==
    IF get_failed THEN Err("Error reading creation metadata")
    ELSE IF ~IsSome(timestamp) THEN Err("disk state is missing timestamp_on_initialization")
    ELSE Ok(Some([handle |-> "db", identity |-> Unwrap(timestamp)]),
            IF load_result.ok THEN Some(load_result.state) ELSE None)

\* fs.remove_path_recursive(path): the path and everything under it is gone
\* afterwards; a path that does not exist is left as it is
remove_path_recursive(disk) == None

\* the stores a daemon may find on disk when it first starts: none, or one left
\* by an earlier daemon (possibly one that recorded no initialization
\* timestamp, possibly unreadable)
InitialVersions ==
    { BuildVersions(sv, FALSE, None, collect(h)) : sv \in SchemaVersions, h \in {None} }
InitialStores ==
    {None} \cup
    { Some([versions |-> v, created_by |-> cb, state |-> s, corrupt |-> c]) :
        v \in InitialVersions,
        cb \in { Insert(collect(None), timestamp_key, to_rfc3339(0)), collect(None) },
        s \in MaterializerStates, c \in BOOLEAN }

\* lines 75-77: the delete is a closure given to io_executor.execute_io_inline
RemoveIo(failed) == [op |-> "remove_path_recursive", executor |-> TRUE, failed |-> failed]
\* lines 108-115: the open is given the io_executor to run on
OpenIo(failed) ==
    [op |-> "MaterializerStateSqliteDb::initialize", executor |-> TRUE, failed |-> failed]
\* lines 117-120: created_by_table().get(..) is called directly in the async fn
ReadBackIo(failed) == [op |-> "created_by_table().get", executor |-> FALSE, failed |-> failed]

\* lines 60-115 up to the first await: a daemon process starts up and calls
\* maybe_initialize_materializer_sqlite_db; the I/O is handed to the executor
maybe_initialize_materializer_sqlite_db(sqlite_materializer_state, schema_version, defer_write_actions, version_setting, hostname) ==
    /\ pc \in {"idle", "returned"}
    /\ now < MaxClock
    /\ now' = now + 1
    /\ prev' = IF pc = "returned"
               THEN Some([options |-> Unwrap(call).options,
                          versions |-> Unwrap(call).versions,
                          before |-> Unwrap(call).before, ret |-> Unwrap(ret)])
               ELSE prev
    /\ io' = <<>>
    /\ IF ~sqlite_materializer_state
       THEN /\ call' = Some([options |-> FALSE, versions |-> None, metadata |-> None,
                             before |-> store, opened |-> None])
            /\ pc' = "await_remove"
            /\ ret' = None
       ELSE LET metadata == BuildMetadata(hostname, now')
                parsed == ParseVersionSetting(version_setting)
            IN  IF ~parsed.ok
                THEN /\ call' = Some([options |-> TRUE, versions |-> None,
                                      metadata |-> Some(metadata), before |-> store,
                                      opened |-> None])
                     /\ pc' = "returned"
                     /\ ret' = Some(Err("sqlite_materializer_state_version"))
                ELSE /\ call' = Some([options |-> TRUE,
                                      versions |-> Some(BuildVersions(schema_version,
                                          defer_write_actions, parsed.val, metadata)),
                                      metadata |-> Some(metadata), before |-> store,
                                      opened |-> None])
                     /\ pc' = "await_open"
                     /\ ret' = None
    /\ UNCHANGED store

\* lines 75-78: the recursive delete has run on the executor; the call returns
RemoveDone(remove_failed) ==
    /\ pc = "await_remove"
    /\ store' = IF remove_failed THEN store ELSE remove_path_recursive(store)
    /\ ret' = Some(DisabledResult(remove_failed))
    /\ io' = <<RemoveIo(remove_failed)>>
    /\ pc' = "returned"
    /\ UNCHANGED <<now, call, prev>>

\* lines 108-131: MaterializerStateSqliteDb::initialize has run on the executor;
\* the identity is read back and the call returns
OpenDone(open_failed, get_failed) ==
    /\ pc = "await_open"
    /\ IF open_failed
       THEN /\ store' = store
            /\ call' = call
            /\ io' = <<OpenIo(TRUE)>>
            /\ ret' = Some(Err("MaterializerStateSqliteDb::initialize"))
       ELSE LET opened == MaterializerStateSqliteDb_initialize(
                              store, Unwrap(Unwrap(call).versions), Unwrap(Unwrap(call).metadata))
                timestamp == ReadIdentity(opened.disk, Unwrap(Unwrap(call).metadata))
            IN  /\ store' = opened.disk
                /\ io' = <<OpenIo(FALSE), ReadBackIo(get_failed)>>
                /\ call' = Some([Unwrap(call) EXCEPT !.opened =
                                Some([load_result |-> opened.load_result,
                                      get_failed |-> get_failed,
                                      timestamp |-> created_by_table_get(opened.disk, timestamp_key)])])
                /\ ret' = Some(EnabledResult(get_failed, timestamp, opened.load_result))
    /\ pc' = "returned"
    /\ UNCHANGED <<now, prev>>

\* the materializer, which owns the handle after startup, records what it
\* has materialized
MaterializerWrite(s) ==
    /\ pc = "returned"
    /\ Unwrap(ret).ok /\ IsSome(Unwrap(ret).db)
    /\ IsSome(store) /\ Unwrap(store).state # s
    /\ store' = Some([Unwrap(store) EXCEPT !.state = s])
    /\ UNCHANGED <<now, pc, call, ret, prev, io>>

InitStore ==
    /\ store \in InitialStores
    /\ now = 0
    /\ pc = "idle"
    /\ call = None
    /\ ret = None
    /\ prev = None
    /\ io = <<>>

RolloutIdle == new_args = None /\ new_ret = None
CacheIdle ==
    /\ cache = None /\ known = {} /\ del_ret = None /\ before = None
    /\ del_io = None /\ prev_del = None

Init == InitStore /\ RolloutIdle /\ CacheIdle

Call ==
    \E o \in BOOLEAN, sv \in SchemaVersions, d \in BOOLEAN,
       vs \in VersionSettings, h \in Hostnames :
        maybe_initialize_materializer_sqlite_db(o, sv, d, vs, h)
Removed == \E f \in BOOLEAN : RemoveDone(f)
Opened == \E f \in BOOLEAN, g \in BOOLEAN : OpenDone(f, g)
Written == \E s \in MaterializerStates : MaterializerWrite(s)

Next ==
    \/ Call /\ UNCHANGED <<rolloutVars, cacheVars>>
    \/ Removed /\ UNCHANGED <<rolloutVars, cacheVars>>
    \/ Opened /\ UNCHANGED <<rolloutVars, cacheVars>>
    \/ Written /\ UNCHANGED <<rolloutVars, cacheVars>>

Spec == Init /\ [][Next]_vars

\* ------------------------------------------------------------------ claims
Returned == pc = "returned"
Args == Unwrap(call)
Result == Unwrap(ret)
Locals == Unwrap(Unwrap(call).opened)
IoErrors == {"MaterializerStateSqliteDb::initialize", "Error reading creation metadata"}

\* C2: when the feature is disabled and maybe_initialize_materializer_sqlite_db
\* returns Ok, nothing exists at the materializer-state path, whether or not
\* something did before, and the result is (None, None).
C2_DisabledLeavesNoStore ==
    (Returned /\ ~Args.options /\ Result.ok)
        => (store = None /\ Result.db = None /\ Result.state = None)

C2_Witness ==
    Returned /\ ~Args.options /\ Result.ok /\ IsSome(Args.before) /\ store = None

\* C3: two enabled initializations in succession against the same store with
\* the same versions fingerprint return the same identity, although the second
\* passed a fresh timestamp.
C3_SameIdentityOnReopen ==
    (/\ Returned /\ IsSome(prev)
     /\ Unwrap(prev).options /\ Args.options
     /\ Unwrap(prev).ret.ok /\ Result.ok
     /\ Unwrap(prev).versions = Args.versions)
        => Unwrap(Result.db).identity = Unwrap(Unwrap(prev).ret.db).identity

C3_Witness ==
    /\ Returned /\ IsSome(prev)
    /\ Unwrap(prev).options /\ Args.options
    /\ Unwrap(prev).ret.ok /\ Result.ok
    /\ Unwrap(prev).versions = Args.versions
    /\ Unwrap(Result.db).identity = Unwrap(Unwrap(prev).ret.db).identity
    /\ Unwrap(Result.db).identity # Unwrap(Args.metadata)[timestamp_key]

\* C4: an enabled initialization whose versions fingerprint differs from the
\* one recorded in the store does not fail because of it (only an I/O error of
\* the open or of the metadata read fails it) and returns None as prior state;
\* prior state is Some only when the fingerprint matches the recorded one.
C4_MismatchGivesNoPriorState ==
    (Returned /\ Args.options /\ IsSome(Args.versions) /\ IsSome(Args.before))
        => /\ (Unwrap(Args.before).versions # Unwrap(Args.versions))
                => /\ Result.state = None
                   /\ (Result.ok \/ Result.err \in IoErrors)
           /\ (Result.ok /\ IsSome(Result.state))
                => Unwrap(Args.before).versions = Unwrap(Args.versions)

C4_Witness ==
    /\ Returned /\ Args.options /\ IsSome(Args.versions) /\ IsSome(Args.before)
    /\ Unwrap(Args.before).versions # Unwrap(Args.versions)
    /\ ~Unwrap(Args.before).corrupt
    /\ Unwrap(Args.before).state # EmptyState
    /\ Result.ok /\ IsSome(Result.db) /\ Result.state = None

\* C5: when the store opened, the timestamp key is there and loading prior
\* state failed, the call returns Ok with the handle, the identity and None;
\* when loading gave state s it returns Some(s).
C5_LoadErrorAbsorbed ==
    (Returned /\ IsSome(Args.opened) /\ ~Locals.get_failed /\ IsSome(Locals.timestamp))
        => /\ Result.ok
           /\ IsSome(Result.db)
           /\ Unwrap(Result.db).identity = Unwrap(Locals.timestamp)
           /\ Result.state = IF Locals.load_result.ok
                             THEN Some(Locals.load_result.state) ELSE None

C5_Witness ==
    /\ Returned /\ IsSome(Args.opened) /\ ~Locals.get_failed /\ IsSome(Locals.timestamp)
    /\ ~Locals.load_result.ok /\ Locals.load_result.err = "corrupt"
    /\ Result.ok /\ Result.state = None

\* C6: when the opened store has no value under timestamp_on_initialization the
\* call returns an error: no handle, no identity, no prior state.
C6_MissingTimestampIsFatal ==
    (Returned /\ IsSome(Args.opened) /\ ~IsSome(Locals.timestamp))
        => (~Result.ok /\ Result.db = None /\ Result.state = None)

C6_Witness ==
    /\ Returned /\ IsSome(Args.opened) /\ ~Locals.get_failed /\ ~IsSome(Locals.timestamp)
    /\ Locals.load_result.ok /\ Locals.load_result.state # EmptyState
    /\ ~Result.ok

\* C13 as claimed: every filesystem and store operation of a call to
\* maybe_initialize_materializer_sqlite_db (the recursive delete, the store
\* open, the read-back of the timestamp key) runs on the blocking I/O executor.
C13_AllIoThroughExecutor ==
    \A i \in 1..Len(io) : io[i].executor

\* C14: the caller observes a handle or prior state only once the call has
\* returned Ok after the store open and the read-back of the timestamp key
\* both succeeded; while the call is in flight it observes no result, and a
\* failed call carries neither handle nor prior state.
C14_NoPartialResult ==
    /\ (pc \in {"await_remove", "await_open"}) => (ret = None)
    /\ (IsSome(ret) /\ ~Result.ok) => (Result.db = None /\ Result.state = None)
    /\ (IsSome(ret) /\ (IsSome(Result.db) \/ IsSome(Result.state)))
            => /\ Returned /\ Args.options /\ Result.ok /\ IsSome(Result.db)
               /\ io = <<OpenIo(FALSE), ReadBackIo(FALSE)>>

C14_Witness ==
    /\ Returned /\ Args.options /\ Result.ok
    /\ IsSome(Result.db) /\ IsSome(Result.state)
    /\ Unwrap(Result.state) # EmptyState
    /\ io = <<OpenIo(FALSE), ReadBackIo(FALSE)>>

\* C15: in the disabled branch the only operation is the recursive delete;
\* when it fails the call returns that error, not (None, None), and the call
\* returns Ok only when the delete succeeded and nothing is left at the path.
C15_DisabledDeleteErrorPropagates ==
    (Returned /\ ~Args.options)
        => /\ Len(io) = 1 /\ io[1].op = "remove_path_recursive"
           /\ io[1].failed => (~Result.ok /\ Result.err = "remove_path_recursive")
           /\ Result.ok => (~io[1].failed /\ ~IsSome(store))

C15_Witness ==
    /\ Returned /\ ~Args.options
    /\ io = <<RemoveIo(TRUE)>>
    /\ IsSome(store) /\ Unwrap(store).state # EmptyState
    /\ ~Result.ok /\ Result.err = "remove_path_recursive"

PrevCall == Unwrap(prev)

\* C19: an enabled initialization that directly follows a successful
\* disabled one finds no store and, when it returns Ok, returns None as prior
\* state, whatever the store held before the disabled one.
C19_NoStateAfterDisabledRun ==
    (Returned /\ Args.options /\ IsSome(prev) /\ ~PrevCall.options /\ PrevCall.ret.ok)
        => /\ Args.before = None
           /\ Result.ok => Result.state = None

C19_Witness ==
    /\ Returned /\ Args.options /\ IsSome(prev) /\ ~PrevCall.options /\ PrevCall.ret.ok
    /\ IsSome(PrevCall.before)
    /\ ~Unwrap(PrevCall.before).corrupt
    /\ Unwrap(PrevCall.before).state # EmptyState
    /\ Args.versions = Some(Unwrap(PrevCall.before).versions)
    /\ Result.ok /\ IsSome(Result.db) /\ Result.state = None

\* --------------------------------------------------------- rollout decision
\* MaterializationMethod
MaterializationMethods == {"Deferred", "DeferredSkipFinalArtifacts", "Immediate", "Eden"}

\* the values of buck2.sqlite_materializer_state in the root config, None when absent
RolloutSettings == {None, Some("0"), Some("0.5"), Some("1"), Some("true"), Some("false"),
                    Some("abc"), Some("1.5")}
\* what the random source of roll() draws, in hundredths
RollSamples == {0, 49, 50, 99}

\* RolloutPercentage::from_str: a boolean, or a rate between 0 and 1 (here in
\* hundredths); anything else is an error
RolloutPercentage_from_str(text) ==
    CASE text = "true" -> [ok |-> TRUE, rate |-> 100]
      [] text = "false" -> [ok |-> TRUE, rate |-> 0]
      [] text = "0" -> [ok |-> TRUE, rate |-> 0]
      [] text = "0.5" -> [ok |-> TRUE, rate |-> 50]
      [] text = "1" -> [ok |-> TRUE, rate |-> 100]
      [] OTHER -> [ok |-> FALSE, rate |-> 0]

\* root_config.parse::<RolloutPercentage>(section, key): Ok(None) when the key is
\* absent, Ok(Some(v)) when it parses, Err otherwise
parse_RolloutPercentage(setting) ==
    IF ~IsSome(setting) THEN [ok |-> TRUE, val |-> None]
    ELSE LET p == RolloutPercentage_from_str(Unwrap(setting))
         IN  IF p.ok THEN [ok |-> TRUE, val |-> Some(p.rate)] ELSE [ok |-> FALSE, val |-> None]

\* RolloutPercentage::never()
RolloutPercentage_never == 0

\* RolloutPercentage::roll(): true with the probability the rate gives
roll(rate, random) == random < rate

\* line 49
IsDeferred(materialization_method) ==
    materialization_method \in {"Deferred", "DeferredSkipFinalArtifacts"}

OptionsOk(b) == [ok |-> TRUE, sqlite_materializer_state |-> b]
OptionsErr == [ok |-> FALSE, sqlite_materializer_state |-> FALSE]

\* the matches!(..) test left out: the setting alone decides
DiskStateOptions_new_IgnoringMethod(setting, materialization_method, random) ==
    LET parsed == parse_RolloutPercentage(setting)
    IN  IF ~parsed.ok THEN OptionsErr
        ELSE OptionsOk(roll(IF IsSome(parsed.val) THEN Unwrap(parsed.val)
                            ELSE RolloutPercentage_never, random))

\* the parse error dropped (.ok().flatten()) instead of propagated with `?`
DiskStateOptions_new_IgnoringParseError(setting, materialization_method, random) ==
    IF ~IsDeferred(materialization_method) THEN OptionsOk(FALSE)
    ELSE LET parsed == parse_RolloutPercentage(setting)
         IN  OptionsOk(roll(IF IsSome(parsed.val) THEN Unwrap(parsed.val)
                            ELSE RolloutPercentage_never, random))

\* unwrap_or_else given a rate that always rolls true instead of never()
DiskStateOptions_new_DefaultAlways(setting, materialization_method, random) ==
    IF ~IsDeferred(materialization_method) THEN OptionsOk(FALSE)
    ELSE LET parsed == parse_RolloutPercentage(setting)
         IN  IF ~parsed.ok THEN OptionsErr
             ELSE OptionsOk(IF IsSome(parsed.val) THEN roll(Unwrap(parsed.val), random)
                            ELSE TRUE)

\* lines 42-57: `&&` evaluates the parse, its `?` and the roll only when the
\* method is a deferred one
DiskStateOptions_new(setting, materialization_method, random) ==
    IF ~IsDeferred(materialization_method) THEN OptionsOk(FALSE)
    ELSE LET parsed == parse_RolloutPercentage(setting)
         IN  IF ~parsed.ok THEN OptionsErr
             ELSE OptionsOk(roll(IF IsSome(parsed.val) THEN Unwrap(parsed.val)
                                 ELSE RolloutPercentage_never, random))

\* the daemon computes its DiskStateOptions at startup
NewOptions(setting, materialization_method, random) ==
    /\ new_args' = Some([setting |-> setting, materialization_method |-> materialization_method,
                         random |-> random])
    /\ new_ret' = Some(DiskStateOptions_new(setting, materialization_method, random))

StoreIdle ==
    /\ store = None /\ now = 0 /\ pc = "idle"
    /\ call = None /\ ret = None /\ prev = None /\ io = <<>>

InitRollout == RolloutIdle /\ StoreIdle /\ CacheIdle

NextRollout ==
    \E setting \in RolloutSettings, m \in MaterializationMethods, r \in RollSamples :
        NewOptions(setting, m, r) /\ UNCHANGED <<storeVars, cacheVars>>

SpecRollout == InitRollout /\ [][NextRollout]_vars

NewArgs == Unwrap(new_args)
NewResult == Unwrap(new_ret)
Malformed(setting) == IsSome(setting) /\ ~RolloutPercentage_from_str(Unwrap(setting)).ok

\* C7: for a materialization method that is not a deferred one,
\* DiskStateOptions::new returns Ok with sqlite_materializer_state = false,
\* whatever the rollout setting (absent, valid or malformed) and the roll.
C7_NonDeferredIsDisabled ==
    (IsSome(new_args) /\ ~IsDeferred(NewArgs.materialization_method))
        => (NewResult.ok /\ ~NewResult.sqlite_materializer_state)

C7_Witness ==
    /\ IsSome(new_args) /\ NewArgs.materialization_method = "Immediate"
    /\ NewArgs.setting = Some("1") /\ NewArgs.random = 0
    /\ NewResult.ok /\ ~NewResult.sqlite_materializer_state

\* C8 as claimed: DiskStateOptions::new fails whenever the rollout setting is
\* present but malformed, for every materialization method.
C8_MalformedAlwaysFails ==
    (IsSome(new_args) /\ Malformed(NewArgs.setting)) => ~NewResult.ok

\* C8 as amended: with a malformed rollout setting DiskStateOptions::new fails
\* exactly when the method is a deferred one; for the other methods the
\* setting is not parsed and the result is Ok with the feature disabled.
C8_MalformedFailsWhenDeferred ==
    (IsSome(new_args) /\ Malformed(NewArgs.setting))
        => IF IsDeferred(NewArgs.materialization_method)
           THEN ~NewResult.ok
           ELSE NewResult.ok /\ ~NewResult.sqlite_materializer_state

C8_Witness ==
    /\ IsSome(new_args) /\ Malformed(NewArgs.setting)
    /\ NewArgs.materialization_method = "DeferredSkipFinalArtifacts"
    /\ ~NewResult.ok

\* C18: for a deferred materialization method and no
\* buck2.sqlite_materializer_state setting, DiskStateOptions::new returns Ok
\* with sqlite_materializer_state = false for every outcome of the roll.
C18_AbsentSettingIsDisabled ==
    (IsSome(new_args) /\ IsDeferred(NewArgs.materialization_method)
        /\ ~IsSome(NewArgs.setting))
        => (NewResult.ok /\ ~NewResult.sqlite_materializer_state)

C18_Witness ==
    /\ IsSome(new_args) /\ NewArgs.materialization_method = "Deferred"
    /\ ~IsSome(NewArgs.setting) /\ NewArgs.random = 0
    /\ NewResult.ok /\ ~NewResult.sqlite_materializer_state

\* --------------------------------------------------- cache directory reconciler
\* The tree at cache_dir_path: None when the directory does not exist, else
\* Some(children), children a function from the names of the direct children
\* to [is_dir, contents].

\* names read_dir may yield that to_str() cannot decode
NonUtf8Names == {"stale-\\xFF"}
\* the names of direct children
ChildNames == {"materializer_state", "command_hashes"} \cup NonUtf8Names
\* what a child directory may hold
InnerNames == {"db.sqlite"}
\* the allow-lists callers pass
KnownDirNames == SUBSET {"materializer_state", "command_hashes"}

Entries ==
    {[is_dir |-> FALSE, contents |-> {}]} \cup
    {[is_dir |-> TRUE, contents |-> c] : c \in SUBSET InnerNames}

Trees ==
    {None} \cup
    UNION { {Some(ch) : ch \in [names -> Entries]} : names \in SUBSET ChildNames }

RECURSIVE Orders(_)
\* the orders in which read_dir may yield a set of names
Orders(names) ==
    IF names = {} THEN {<<>>}
    ELSE UNION { {<<n>> \o rest : rest \in Orders(names \ {n})} : n \in names }

\* the name decoded lossily (to_string_lossy): never None
to_string_lossy(name) == Some(name)

\* lines 161-164: OsStr::to_str, None for a name that is not UTF-8
to_str(name) == IF name \in NonUtf8Names THEN None ELSE Some(name)

\* entry.path().is_dir()
is_dir(children, name) == children[name].is_dir

\* fs.remove_path_recursive(&cache_dir_path.join(filename)) removing the cache
\* directory itself
remove_cache_dir(tree, filename) == None

\* line 168: fs.remove_path_recursive(&cache_dir_path.join(filename))
remove_entry(tree, filename) ==
    IF ~IsSome(tree) THEN tree
    ELSE Some([n \in (DOMAIN Unwrap(tree)) \ {filename} |-> Unwrap(tree)[n]])

\* a remove_path_recursive that failed part-way: what was under the entry may be gone
remove_partially(tree, filename) ==
    IF ~IsSome(tree) THEN tree
    ELSE Some([Unwrap(tree) EXCEPT ![filename].contents = {}])

\* the is_dir() test left out: a known name is kept whatever it is
ShouldRemoveByNameOnly(known_dir_names, filename, entry_is_dir) ==
    filename \notin known_dir_names

\* the allow-list left out: every entry is removed
ShouldRemoveEverything(known_dir_names, filename, entry_is_dir) == TRUE

\* line 167
ShouldRemove(known_dir_names, filename, entry_is_dir) ==
    filename \notin known_dir_names \/ ~entry_is_dir

\* the I/O errors a pass may meet: none, read_dir itself failing, reading one
\* entry failing, or the removal of one entry failing (before anything of it is
\* removed, or after what is under it is gone)
NoFailure == [at |-> None, kind |-> ""]
IoFailures(tree, known_dir_names) ==
    LET children == IF IsSome(tree) THEN Unwrap(tree) ELSE [n \in {} |-> n]
        removed == {n \in DOMAIN children :
                        IsSome(to_str(n))
                        /\ ShouldRemove(known_dir_names, Unwrap(to_str(n)), children[n].is_dir)}
    IN  {NoFailure} \cup
        (IF IsSome(tree) THEN {[at |-> None, kind |-> "read_dir"]} ELSE {}) \cup
        {[at |-> Some(n), kind |-> "entry"] : n \in DOMAIN children} \cup
        {[at |-> Some(n), kind |-> "remove"] : n \in removed} \cup
        {[at |-> Some(n), kind |-> "remove_partial"] :
            n \in {m \in removed : children[m].contents # {}}}

RECURSIVE LoopContinuing(_, _, _, _)
\* the first error remembered and the pass carried on (best-effort deletion)
LoopContinuing(entries, tree, known_dir_names, fail) ==
    IF entries = <<>> THEN [tree |-> tree, ok |-> TRUE, cause |-> ""]
    ELSE LET name == Head(entries)
             failing == fail.at = Some(name)
             filename == to_str(name)
             rest(t) == LoopContinuing(Tail(entries), t, known_dir_names, fail)
             failed(t, cause) == [tree |-> rest(t).tree, ok |-> FALSE, cause |-> cause]
         IN  IF failing /\ fail.kind = "entry" THEN failed(tree, "read_dir entry")
             ELSE IF ~IsSome(filename) THEN failed(tree, "Filename is not UTF-8")
             ELSE IF ShouldRemove(known_dir_names, Unwrap(filename),
                                  IsSome(tree) /\ name \in DOMAIN Unwrap(tree)
                                      /\ is_dir(Unwrap(tree), name))
             THEN IF failing /\ fail.kind = "remove"
                  THEN failed(tree, "remove_path_recursive")
                  ELSE IF failing /\ fail.kind = "remove_partial"
                  THEN failed(remove_partially(tree, name), "remove_path_recursive")
                  ELSE rest(remove_entry(tree, Unwrap(filename)))
             ELSE rest(tree)

RECURSIVE LoopStoppingAfterRemoval(_, _, _, _)
\* the loop left after the first removal (a `break` after line 168)
LoopStoppingAfterRemoval(entries, tree, known_dir_names, fail) ==
    IF entries = <<>> THEN [tree |-> tree, ok |-> TRUE, cause |-> ""]
    ELSE LET name == Head(entries)
             failing == fail.at = Some(name)
             filename == to_str(name)
         IN  IF failing /\ fail.kind = "entry"
             THEN [tree |-> tree, ok |-> FALSE, cause |-> "read_dir entry"]
             ELSE IF ~IsSome(filename)
             THEN [tree |-> tree, ok |-> FALSE, cause |-> "Filename is not UTF-8"]
             ELSE IF ShouldRemove(known_dir_names, Unwrap(filename),
                                  IsSome(tree) /\ name \in DOMAIN Unwrap(tree)
                                      /\ is_dir(Unwrap(tree), name))
             THEN IF failing /\ fail.kind = "remove"
                  THEN [tree |-> tree, ok |-> FALSE, cause |-> "remove_path_recursive"]
                  ELSE IF failing /\ fail.kind = "remove_partial"
                  THEN [tree |-> remove_partially(tree, name), ok |-> FALSE,
                        cause |-> "remove_path_recursive"]
                  ELSE [tree |-> remove_entry(tree, Unwrap(filename)), ok |-> TRUE, cause |-> ""]
             ELSE LoopStoppingAfterRemoval(Tail(entries), tree, known_dir_names, fail)

RECURSIVE Loop(_, _, _, _)
\* lines 158-170: the entries in the order read_dir yields them; the first
\* error ends the loop
Loop(entries, tree, known_dir_names, fail) ==
    IF entries = <<>> THEN [tree |-> tree, ok |-> TRUE, cause |-> ""]
    ELSE LET name == Head(entries)
             failing == fail.at = Some(name)
             filename == to_str(name)
         IN  IF failing /\ fail.kind = "entry"
             THEN [tree |-> tree, ok |-> FALSE, cause |-> "read_dir entry"]
             ELSE IF ~IsSome(filename)
             THEN [tree |-> tree, ok |-> FALSE, cause |-> "Filename is not UTF-8"]
             ELSE IF ShouldRemove(known_dir_names, Unwrap(filename),
                                  IsSome(tree) /\ name \in DOMAIN Unwrap(tree)
                                      /\ is_dir(Unwrap(tree), name))
             THEN IF failing /\ fail.kind = "remove"
                  THEN [tree |-> tree, ok |-> FALSE, cause |-> "remove_path_recursive"]
                  ELSE IF failing /\ fail.kind = "remove_partial"
                  THEN [tree |-> remove_partially(tree, name), ok |-> FALSE,
                        cause |-> "remove_path_recursive"]
                  ELSE Loop(Tail(entries), remove_entry(tree, Unwrap(filename)),
                            known_dir_names, fail)
             ELSE Loop(Tail(entries), tree, known_dir_names, fail)

\* lines 174-179
with_context(res) ==
    IF res.ok THEN [ok |-> TRUE, context |-> "", cause |-> ""]
    ELSE [ok |-> FALSE,
          context |-> "deleting unrecognized caches in cache_dir_path to prevent them from going stale",
          cause |-> res.cause]

\* the exists() test left out: read_dir is called on whatever is there
ExistsUnchecked(tree) == TRUE

\* line 157: cache_dir_path.exists()
Exists(tree) == IsSome(tree)

\* lines 151-180; fs_util::read_dir fails on a directory that is not there
delete_unknown_disk_state(known_dir_names, order, fail) ==
    LET res == IF ~Exists(cache) THEN [tree |-> cache, ok |-> TRUE, cause |-> ""]
               ELSE IF fail.kind = "read_dir" \/ ~IsSome(cache)
               THEN [tree |-> cache, ok |-> FALSE, cause |-> "read_dir"]
               ELSE Loop(order, cache, known_dir_names, fail)
    IN  /\ before' = Some(cache)
        /\ known' = known_dir_names
        /\ cache' = res.tree
        /\ del_ret' = Some(with_context(res))
        /\ del_io' = Some([order |-> order, fail |-> fail])
        /\ prev_del' = IF IsSome(del_ret) /\ Unwrap(del_ret).ok
                       THEN Some([known |-> known, removed_any |-> Unwrap(before) # cache])
                       ELSE None

\* fs.create_file(cache_dir_path/<name>/<inner>), as the tests set the tree up:
\* the directories on the way are created
create_file(name, inner) ==
    /\ name \notin NonUtf8Names
    /\ LET children == IF IsSome(cache) THEN Unwrap(cache) ELSE [n \in {} |-> n]
       IN  /\ name \in DOMAIN children => children[name].is_dir
           /\ cache' = Some([n \in (DOMAIN children) \cup {name} |->
                                IF n = name
                                THEN [is_dir |-> TRUE,
                                      contents |-> {inner} \cup
                                          (IF name \in DOMAIN children
                                           THEN children[name].contents ELSE {})]
                                ELSE children[n]])
    /\ cache' # cache
    /\ del_ret' = None
    /\ before' = None
    /\ known' = {}
    /\ del_io' = None
    /\ prev_del' = None

InitReconcile ==
    /\ cache \in Trees
    /\ known = {}
    /\ del_ret = None
    /\ before = None
    /\ del_io = None
    /\ prev_del = None
    /\ StoreIdle
    /\ RolloutIdle

Reconcile ==
    \E k \in KnownDirNames :
        \E order \in Orders(IF IsSome(cache) THEN DOMAIN Unwrap(cache) ELSE {}) :
            \E fail \in IoFailures(cache, k) :
                delete_unknown_disk_state(k, order, fail)
Created == \E n \in ChildNames, i \in InnerNames : create_file(n, i)

NextReconcile ==
    \/ Reconcile /\ UNCHANGED <<storeVars, rolloutVars>>
    \/ Created /\ UNCHANGED <<storeVars, rolloutVars>>

SpecReconcile == InitReconcile /\ [][NextReconcile]_vars

Deleted == IsSome(del_ret)
DeleteResult == Unwrap(del_ret)
TreeBefore == Unwrap(before)
ChildrenBefore == IF IsSome(TreeBefore) THEN Unwrap(TreeBefore) ELSE [n \in {} |-> n]
ChildrenAfter == IF IsSome(cache) THEN Unwrap(cache) ELSE [n \in {} |-> n]

\* C1: after delete_unknown_disk_state returns Ok, every remaining direct
\* child of the cache directory is a directory whose name is in the allow-list:
\* every child with another name, and every child with a listed name that is
\* not a directory, is gone.
C1_OnlyKnownDirsRemain ==
    (Deleted /\ DeleteResult.ok)
        => /\ \A n \in DOMAIN ChildrenAfter : n \in known /\ ChildrenAfter[n].is_dir
           /\ \A n \in DOMAIN ChildrenBefore :
                (n \notin known \/ ~ChildrenBefore[n].is_dir) => n \notin DOMAIN ChildrenAfter

C1_Witness ==
    /\ Deleted /\ DeleteResult.ok
    /\ known = {"materializer_state", "command_hashes"}
    /\ DOMAIN ChildrenBefore = {"materializer_state", "command_hashes"}
    /\ ~ChildrenBefore["materializer_state"].is_dir
    /\ ChildrenBefore["command_hashes"].is_dir
    /\ DOMAIN ChildrenAfter = {"command_hashes"}

\* C9: with an empty allow-list and an existing, non-empty cache directory a
\* successful delete_unknown_disk_state leaves the directory existing and
\* empty; whatever the outcome, an existing cache directory still exists.
C9_EmptyAllowListEmptiesCacheDir ==
    (Deleted /\ IsSome(TreeBefore))
        => /\ IsSome(cache)
           /\ (DeleteResult.ok /\ known = {} /\ DOMAIN ChildrenBefore # {})
                => DOMAIN ChildrenAfter = {}

C9_Witness ==
    /\ Deleted /\ DeleteResult.ok /\ known = {}
    /\ IsSome(TreeBefore)
    /\ DOMAIN ChildrenBefore = {"materializer_state", "command_hashes"}
    /\ \A n \in DOMAIN ChildrenBefore :
            ChildrenBefore[n] = [is_dir |-> TRUE, contents |-> {"db.sqlite"}]
    /\ IsSome(cache) /\ DOMAIN ChildrenAfter = {}

\* C10: whatever the outcome, every direct child that is a directory with a
\* name in the allow-list is still there exactly as it was, contents included,
\* and nothing is created; on Ok the other children are gone.
C10_KnownDirsUntouched ==
    Deleted
        => /\ \A n \in DOMAIN ChildrenBefore :
                (n \in known /\ ChildrenBefore[n].is_dir)
                    => (n \in DOMAIN ChildrenAfter /\ ChildrenAfter[n] = ChildrenBefore[n])
           /\ DOMAIN ChildrenAfter \subseteq DOMAIN ChildrenBefore
           /\ IsSome(cache) = IsSome(TreeBefore)
           /\ DeleteResult.ok
                => DOMAIN ChildrenAfter =
                      {n \in DOMAIN ChildrenBefore : n \in known /\ ChildrenBefore[n].is_dir}

C10_Witness ==
    /\ Deleted /\ DeleteResult.ok /\ known = {"materializer_state"}
    /\ DOMAIN ChildrenBefore = {"materializer_state", "command_hashes"}
    /\ \A n \in DOMAIN ChildrenBefore :
            ChildrenBefore[n] = [is_dir |-> TRUE, contents |-> {"db.sqlite"}]
    /\ DOMAIN ChildrenAfter = {"materializer_state"}
    /\ ChildrenAfter["materializer_state"] = [is_dir |-> TRUE, contents |-> {"db.sqlite"}]

PrevDelete == Unwrap(prev_del)
EnumerationErrors == {"read_dir", "read_dir entry"}

\* C11: a run of delete_unknown_disk_state that comes right after a run that
\* returned Ok with the same allow-list removes nothing: the tree is the one the
\* first run left, and the second run returns Ok unless the enumeration itself
\* meets an I/O error.
C11_SecondRunRemovesNothing ==
    (Deleted /\ IsSome(prev_del) /\ PrevDelete.known = known)
        => /\ cache = TreeBefore
           /\ (DeleteResult.ok \/ DeleteResult.cause \in EnumerationErrors)

C11_Witness ==
    /\ Deleted /\ IsSome(prev_del) /\ PrevDelete.known = known
    /\ PrevDelete.removed_any
    /\ DeleteResult.ok
    /\ cache = TreeBefore
    /\ DOMAIN ChildrenAfter # {}

Order == Unwrap(del_io).order
Fail == Unwrap(del_io).fail
IoCauses == {"read_dir", "read_dir entry", "remove_path_recursive"}
\* the entries line 167 selects for removal
Selected(n) == n \notin known \/ ~ChildrenBefore[n].is_dir
AsBefore(n) == n \in DOMAIN ChildrenAfter /\ ChildrenAfter[n] = ChildrenBefore[n]

\* C12: when a pass of delete_unknown_disk_state meets an I/O error in the
\* enumeration or in a removal, it returns an error whose context names the
\* cache directory; the entries visited before the failing one are removed
\* (when selected) or kept as they were, the failing entry is still there, and
\* the entries not yet visited are as they were.
C12_IoErrorAbortsThePass ==
    (Deleted /\ ~DeleteResult.ok /\ DeleteResult.cause \in IoCauses)
        => /\ DeleteResult.context =
                "deleting unrecognized caches in cache_dir_path to prevent them from going stale"
           /\ IsSome(cache)
           /\ IF DeleteResult.cause = "read_dir" THEN cache = TreeBefore
              ELSE \E i \in 1..Len(Order) :
                    /\ Fail.at = Some(Order[i])
                    /\ \A j \in 1..(i - 1) :
                            IF Selected(Order[j]) THEN Order[j] \notin DOMAIN ChildrenAfter
                            ELSE AsBefore(Order[j])
                    /\ Order[i] \in DOMAIN ChildrenAfter
                    /\ (AsBefore(Order[i])
                        \/ (Fail.kind = "remove_partial"
                            /\ ChildrenAfter[Order[i]] =
                                 [ChildrenBefore[Order[i]] EXCEPT !.contents = {}]))
                    /\ \A j \in (i + 1)..Len(Order) : AsBefore(Order[j])

C12_Witness ==
    /\ Deleted /\ ~DeleteResult.ok /\ DeleteResult.cause = "remove_path_recursive"
    /\ Len(Order) = 3
    /\ Fail.at = Some(Order[2])
    /\ Order[1] \notin DOMAIN ChildrenAfter
    /\ AsBefore(Order[3])

PositionOf(n) == CHOOSE i \in 1..Len(Order) : Order[i] = n
Undecodable == (DOMAIN ChildrenBefore) \cap NonUtf8Names

\* C16: when a direct child has a name that cannot be decoded,
\* delete_unknown_disk_state returns an error; that entry is left as it was
\* and so is every entry enumerated after it; when the pass got as far as that
\* entry, the error is the decoding error.
C16_UndecodableNameFailsThePass ==
    (Deleted /\ IsSome(TreeBefore) /\ Undecodable # {})
        => /\ ~DeleteResult.ok
           /\ \A bad \in Undecodable :
                /\ AsBefore(bad)
                /\ \A j \in (PositionOf(bad) + 1)..Len(Order) : AsBefore(Order[j])
                /\ (Fail = NoFailure \/ (IsSome(Fail.at) /\ PositionOf(Unwrap(Fail.at)) > PositionOf(bad)))
                        => DeleteResult.cause = "Filename is not UTF-8"

C16_Witness ==
    /\ Deleted /\ ~DeleteResult.ok /\ DeleteResult.cause = "Filename is not UTF-8"
    /\ Len(Order) = 3
    /\ Order[2] \in NonUtf8Names
    /\ Order[1] \notin DOMAIN ChildrenAfter
    /\ AsBefore(Order[2])
    /\ Selected(Order[3]) /\ AsBefore(Order[3])

\* C17: when cache_dir_path does not exist, delete_unknown_disk_state returns
\* Ok and the directory still does not exist: nothing is created or removed.
C17_MissingCacheDirIsOk ==
    (Deleted /\ ~IsSome(TreeBefore)) => (DeleteResult.ok /\ cache = None)

C17_Witness ==
    /\ Deleted /\ ~IsSome(TreeBefore)
    /\ known = {"materializer_state"}
    /\ DeleteResult.ok /\ cache = None

====
